---- MODULE Spec2Model ----
(***************************************************************************)
(* Model of the ckb-dex-contract order validators.                         *)
(*                                                                         *)
(*   entry.rs        main -> validate_order   (41-byte records, f32)       *)
(*   entry/order.rs  validate                 (57-byte records, f64)       *)
(*                                                                         *)
(* Cell data, lock arguments and script arguments are byte strings.        *)
(* Integers of the program (u64 capacities, u64 price, u128 amounts) are   *)
(* little-endian byte strings, exactly as they lie in the cell data, so    *)
(* from_le_bytes is a slice and all integer arithmetic is done on bytes    *)
(* (TLC's own integers are 32 bits wide).  Floating point values are       *)
(* sign / mantissa / exponent triples rounded to nearest-even at the       *)
(* precision of the Rust type (24 bits for f32, 53 bits for f64).          *)
(***************************************************************************)
EXTENDS Integers, Sequences, FiniteSets, TLC

VARIABLES
  build,    \* the source the deployed script is built from: "entry" | "order"
  consts,   \* the floating point constants of the two sources, folded at build time
  live,     \* the order cells on the ledger, one per owner
  fills,    \* the number of fills committed to the ledger
  args,     \* the arguments of the script being run
  tx,       \* the transaction under validation
  pc,       \* "Idle" | "AwaitingDispatch" | "OrderPath" | "Accepted" | "Rejected"
  result    \* what the last run of the script returned

vars == <<build, consts, live, fills, args, tx, pc, result>>

(***************************************************************************)
(* Natural numbers as little-endian byte strings.                          *)
(***************************************************************************)

RECURSIVE Pow2(_)
Pow2(k) == IF k = 0 THEN 1 ELSE 2 * Pow2(k - 1)

ByteAt(a, i) == IF i >= 1 /\ i <= Len(a) THEN a[i] ELSE 0

\* bit i (0 = least significant) of the byte string a
BitAt(a, i) == IF i < 0 THEN 0 ELSE (ByteAt(a, (i \div 8) + 1) \div Pow2(i % 8)) % 2

IsZero(a) == \A i \in 1..Len(a) : a[i] = 0

\* number of significant bytes
RECURSIVE SigBytes(_, _)
SigBytes(a, i) == IF i = 0 THEN 0 ELSE IF a[i] # 0 THEN i ELSE SigBytes(a, i - 1)

Trim(a) == SubSeq(a, 1, SigBytes(a, Len(a)))

RECURSIVE BitsOfByte(_)
BitsOfByte(b) == IF b = 0 THEN 0 ELSE 1 + BitsOfByte(b \div 2)

BitLen(a) ==
  LET n == SigBytes(a, Len(a))
  IN  IF n = 0 THEN 0 ELSE 8 * (n - 1) + BitsOfByte(a[n])

Max(x, y) == IF x >= y THEN x ELSE y

\* -1, 0, 1 as a < b, a = b, a > b
RECURSIVE CmpFrom(_, _, _)
CmpFrom(a, b, i) ==
  IF i = 0 THEN 0
  ELSE IF ByteAt(a, i) < ByteAt(b, i) THEN -1
  ELSE IF ByteAt(a, i) > ByteAt(b, i) THEN 1
  ELSE CmpFrom(a, b, i - 1)

Cmp(a, b) == CmpFrom(a, b, Max(Len(a), Len(b)))

NatEq(a, b) == Cmp(a, b) = 0
NatLt(a, b) == Cmp(a, b) < 0
NatGt(a, b) == Cmp(a, b) > 0

\* a small integer (below 2^31) as a byte string
RECURSIVE NatOf(_)
NatOf(n) == IF n = 0 THEN << >> ELSE <<n % 256>> \o NatOf(n \div 256)

RECURSIVE AddFrom(_, _, _, _, _)
AddFrom(a, b, i, n, carry) ==
  IF i > n THEN (IF carry = 0 THEN << >> ELSE <<carry>>)
  ELSE LET s == ByteAt(a, i) + ByteAt(b, i) + carry
       IN  <<s % 256>> \o AddFrom(a, b, i + 1, n, s \div 256)

NatAdd(a, b) == AddFrom(a, b, 1, Max(Len(a), Len(b)), 0)

\* a - b for a >= b
RECURSIVE SubFrom(_, _, _, _, _)
SubFrom(a, b, i, n, borrow) ==
  IF i > n THEN << >>
  ELSE LET d == ByteAt(a, i) - ByteAt(b, i) - borrow
       IN  IF d < 0 THEN <<d + 256>> \o SubFrom(a, b, i + 1, n, 1)
                    ELSE <<d>> \o SubFrom(a, b, i + 1, n, 0)

NatSub(a, b) == SubFrom(a, b, 1, Max(Len(a), Len(b)), 0)

\* a * k for one byte k
RECURSIVE MulByteFrom(_, _, _, _)
MulByteFrom(a, k, i, carry) ==
  IF i > Len(a) THEN (IF carry = 0 THEN << >> ELSE <<carry>>)
  ELSE LET p == a[i] * k + carry
       IN  <<p % 256>> \o MulByteFrom(a, k, i + 1, p \div 256)

ZeroBytes(n) == [i \in 1..n |-> 0]

RECURSIVE MulFrom(_, _, _)
MulFrom(a, b, j) ==
  IF j > Len(b) THEN << >>
  ELSE NatAdd(ZeroBytes(j - 1) \o MulByteFrom(a, b[j], 1, 0), MulFrom(a, b, j + 1))

NatMul(a, b) == MulFrom(Trim(a), Trim(b), 1)

\* a * 2^k: k \div 8 whole bytes, then the remaining bits by a multiplication
ShiftL(a, k) == ZeroBytes(k \div 8) \o MulByteFrom(a, Pow2(k % 8), 1, 0)

\* floor(a / 2^k): drop k \div 8 bytes, then join each byte with the low bits
\* of the next one
ShiftR(a, k) ==
  LET b == SubSeq(a, (k \div 8) + 1, Len(a))
      w == Pow2(k % 8)
  IN  [j \in 1..Len(b) |-> ((ByteAt(b, j + 1) * 256 + b[j]) \div w) % 256]

\* whether some bit below bit k of a is set
LowBitsSet(a, k) ==
  \/ \E j \in 1..(k \div 8) : ByteAt(a, j) # 0
  \/ ByteAt(a, (k \div 8) + 1) % Pow2(k % 8) # 0

\* the largest digit j <= k with d * j <= r
RECURSIVE DigitDown(_, _, _)
DigitDown(d, r, k) ==
  IF k = 0 \/ Cmp(MulByteFrom(d, k, 1, 0), r) <= 0 THEN k ELSE DigitDown(d, r, k - 1)

\* one digit of the long division of r (r < 256 * d) by d, d trimmed and non-zero:
\* estimated from the three leading bytes of r and the two leading bytes of d
QuotDigit(d, r) ==
  LET n    == Len(d)
      rtop == ByteAt(r, n + 1) * 65536 + ByteAt(r, n) * 256 + ByteAt(r, n - 1)
      dtop == ByteAt(d, n) * 256 + ByteAt(d, n - 1)
      est  == (rtop \div dtop) + 1
  IN  DigitDown(d, r, IF est > 255 THEN 255 ELSE est)

\* quotient and remainder of a by d # 0: long division, one byte of a at a time
RECURSIVE DivFrom(_, _, _, _, _)
DivFrom(a, d, i, q, r) ==
  IF i = 0 THEN [q |-> q, r |-> r]
  ELSE LET r2 == Trim(<<a[i]>> \o r)
           k  == QuotDigit(d, r2)
           r3 == Trim(NatSub(r2, MulByteFrom(d, k, 1, 0)))
           q3 == <<k>> \o q
       IN  IF Len(q3) + Len(r3) >= 0 THEN DivFrom(a, d, i - 1, q3, r3)
           ELSE [q |-> q, r |-> r]

NatDivMod(a, d) == DivFrom(a, Trim(d), Len(a), << >>, << >>)

(***************************************************************************)
(* IEEE-754 binary floating point, round to nearest, ties to even.         *)
(* A value is [k, s, m, e]: kind "fin" | "inf" | "nan", sign s (1 is       *)
(* negative), and for a finite value the magnitude m * 2^e with m a byte   *)
(* string of exactly fmt.p significant bits, or empty for zero.  fmt.emax  *)
(* is the exponent of the largest finite value in this form.  The          *)
(* subnormal range is not modelled: no operation of the validators can     *)
(* produce a non-zero magnitude below 2^-100.                              *)
(***************************************************************************)

F32 == [p |-> 24, emax |-> 104]
F64 == [p |-> 53, emax |-> 971]

FZero == [k |-> "fin", s |-> 0, m |-> << >>, e |-> 0]
FInf(s) == [k |-> "inf", s |-> s, m |-> << >>, e |-> 0]
FNaN == [k |-> "nan", s |-> 0, m |-> << >>, e |-> 0]

\* the value (-1)^s * (m * 2^e + a non-zero part below the last bit of m, if
\* sticky) rounded to the format
Round(fmt, s, m, e, sticky) ==
  LET L == BitLen(m)
  IN  IF L = 0 THEN FZero
      ELSE IF L <= fmt.p
      THEN [k |-> "fin", s |-> s, m |-> Trim(ShiftL(m, fmt.p - L)), e |-> e - (fmt.p - L)]
      ELSE LET sh   == L - fmt.p
               q    == Trim(ShiftR(m, sh))
               rest == sticky \/ LowBitsSet(m, sh - 1)
               up   == BitAt(m, sh - 1) = 1 /\ (rest \/ BitAt(q, 0) = 1)
               q2   == IF up THEN Trim(NatAdd(q, <<1>>)) ELSE q
               over == BitLen(q2) > fmt.p
               m3   == IF over THEN Trim(ShiftR(q2, 1)) ELSE q2
               e3   == IF over THEN e + sh + 1 ELSE e + sh
           IN  IF e3 > fmt.emax THEN FInf(s)
               ELSE [k |-> "fin", s |-> s, m |-> m3, e |-> e3]

\* an unsigned integer cast to the format: Rust's `n as f32`, `n as f64`
FromNat(fmt, n) == Round(fmt, 0, Trim(n), 0, FALSE)

FIsZero(a) == a.k = "fin" /\ Len(a.m) = 0

\* -1, 0, 1 comparing the magnitudes of two finite values of one format
MagCmp(a, b) ==
  IF Len(a.m) = 0 /\ Len(b.m) = 0 THEN 0
  ELSE IF Len(a.m) = 0 THEN -1
  ELSE IF Len(b.m) = 0 THEN 1
  ELSE IF a.e < b.e THEN -1
  ELSE IF a.e > b.e THEN 1
  ELSE Cmp(a.m, b.m)

\* -1, 0, 1 comparing two values neither of which is a NaN
FCmp(a, b) ==
  LET sa == IF FIsZero(a) THEN 0 ELSE a.s
      sb == IF FIsZero(b) THEN 0 ELSE b.s
      mag == IF a.k = "inf" /\ b.k = "inf" THEN 0
             ELSE IF a.k = "inf" THEN 1
             ELSE IF b.k = "inf" THEN -1
             ELSE MagCmp(a, b)
  IN  IF sa = 0 /\ sb = 1 THEN 1
      ELSE IF sa = 1 /\ sb = 0 THEN -1
      ELSE IF sa = 0 THEN mag ELSE 0 - mag

\* the comparison operators of Rust on floats: all false on a NaN but !=
FLt(a, b) == a.k # "nan" /\ b.k # "nan" /\ FCmp(a, b) < 0
FGt(a, b) == a.k # "nan" /\ b.k # "nan" /\ FCmp(a, b) > 0
FNe(a, b) == a.k = "nan" \/ b.k = "nan" \/ FCmp(a, b) # 0

FNeg(a) == [a EXCEPT !.s = 1 - a.s]

FAdd(fmt, a, b) ==
  IF a.k = "nan" \/ b.k = "nan" THEN FNaN
  ELSE IF a.k = "inf" /\ b.k = "inf" THEN (IF a.s = b.s THEN a ELSE FNaN)
  ELSE IF a.k = "inf" THEN a
  ELSE IF b.k = "inf" THEN b
  ELSE IF Len(a.m) = 0 THEN (IF Len(b.m) = 0 THEN FZero ELSE b)
  ELSE IF Len(b.m) = 0 THEN a
  ELSE LET e0 == IF a.e < b.e THEN a.e ELSE b.e
           ma == Trim(ShiftL(a.m, a.e - e0))
           mb == Trim(ShiftL(b.m, b.e - e0))
       IN  IF a.s = b.s THEN Round(fmt, a.s, Trim(NatAdd(ma, mb)), e0, FALSE)
           ELSE IF Cmp(ma, mb) >= 0 THEN Round(fmt, a.s, Trim(NatSub(ma, mb)), e0, FALSE)
           ELSE Round(fmt, b.s, Trim(NatSub(mb, ma)), e0, FALSE)

FSub(fmt, a, b) == FAdd(fmt, a, FNeg(b))

FMul(fmt, a, b) ==
  LET s == (a.s + b.s) % 2
  IN  IF a.k = "nan" \/ b.k = "nan" THEN FNaN
      ELSE IF a.k = "inf" \/ b.k = "inf"
      THEN (IF FIsZero(a) \/ FIsZero(b) THEN FNaN ELSE FInf(s))
      ELSE IF Len(a.m) = 0 \/ Len(b.m) = 0 THEN [FZero EXCEPT !.s = s]
      ELSE Round(fmt, s, Trim(NatMul(a.m, b.m)), a.e + b.e, FALSE)

FDiv(fmt, a, b) ==
  LET s == (a.s + b.s) % 2
  IN  IF a.k = "nan" \/ b.k = "nan" THEN FNaN
      ELSE IF a.k = "inf" THEN (IF b.k = "inf" THEN FNaN ELSE FInf(s))
      ELSE IF b.k = "inf" THEN [FZero EXCEPT !.s = s]
      ELSE IF Len(b.m) = 0 THEN (IF Len(a.m) = 0 THEN FNaN ELSE FInf(s))
      ELSE IF Len(a.m) = 0 THEN [FZero EXCEPT !.s = s]
      ELSE LET qr == NatDivMod(ShiftL(a.m, fmt.p + 2), b.m)
           IN  Round(fmt, s, Trim(qr.q), a.e - b.e - (fmt.p + 2), Len(qr.r) # 0)

(***************************************************************************)
(* Cells and transactions as the ledger runtime hands them to the script.  *)
(* A cell is [capacity, data, lock_args]: capacity a u64 (8 bytes, little  *)
(* endian), data and lock_args byte strings.  A transaction is             *)
(* [inputs, outputs, witness]: two sequences of cells (an input is the     *)
(* cell it spends) and whether witness 0 of the script group carries a     *)
(* non-empty input_type.  Indices are 1-based here, 0-based in the source. *)
(***************************************************************************)

Pad(a, n) == [i \in 1..n |-> ByteAt(a, i)]

U64(n) == Pad(n, 8)
U128(n) == Pad(n, 16)

\* load_cell_capacity(index, source) and load_cell_data(index, source)
load_cell_capacity(cells, index) ==
  IF index > Len(cells) THEN [err |-> "IndexOutOfBound", val |-> U64(<< >>)]
  ELSE [err |-> "", val |-> cells[index].capacity]

load_cell_data(cells, index) ==
  IF index > Len(cells) THEN [err |-> "IndexOutOfBound", val |-> << >>]
  ELSE [err |-> "", val |-> cells[index].data]

(***************************************************************************)
(* entry/order.rs                                                          *)
(***************************************************************************)

ORDER_LEN == 57
SUDT_LEN == 16

\* const FEE: f64 = 0.003 and const PRICE_PARAM: f64 = 10000000000.0, and the
\* literals 1.0 + FEE and 0.001 of validate
FEE == FDiv(F64, FromNat(F64, NatOf(3)), FromNat(F64, NatOf(1000)))
PRICE_PARAM == FromNat(F64, NatMul(NatOf(100000), NatOf(100000)))
ONE_PLUS_FEE == FAdd(F64, FromNat(F64, NatOf(1)), FEE)
TOLERANCE == FDiv(F64, FromNat(F64, NatOf(1)), FromNat(F64, NatOf(1000)))

_init_order_data ==
  [sudt_amount |-> U128(<< >>), dealt_amount |-> U128(<< >>),
   undealt_amount |-> U128(<< >>), price |-> U64(<< >>), order_type |-> 0]

parse_order_data(data) ==
  IF Len(data) # SUDT_LEN /\ Len(data) # ORDER_LEN
  THEN [err |-> "WrongDataLengthOrFormat", val |-> _init_order_data]
  ELSE [err |-> "",
        val |-> IF Len(data) = ORDER_LEN
                THEN [sudt_amount    |-> SubSeq(data, 1, 16),
                      dealt_amount   |-> SubSeq(data, 17, 32),
                      undealt_amount |-> SubSeq(data, 33, 48),
                      price          |-> SubSeq(data, 49, 56),
                      order_type     |-> data[57]]
                ELSE [_init_order_data EXCEPT !.sudt_amount = SubSeq(data, 1, 16)]]

\* parse_cell_data failing on the lengths parse_order_data fails on
parse_cell_data_strict(cells, index) ==
  LET data == load_cell_data(cells, index)
  IN  IF data.err # "" THEN [err |-> data.err, val |-> _init_order_data]
      ELSE parse_order_data(data.val)

parse_cell_data(cells, index) ==
  LET data == load_cell_data(cells, index)
  IN  IF data.err # "" THEN [err |-> data.err, val |-> _init_order_data]
      ELSE IF Len(data.val) = ORDER_LEN \/ Len(data.val) = SUDT_LEN
      THEN parse_order_data(data.val)
      ELSE [err |-> "", val |-> _init_order_data]

\* the loop without its break: it runs to the end of the outputs and the
\* last index under the owner's lock arguments is the one kept
RECURSIVE Locate_last(_, _, _)
Locate_last(outputs, a, i) ==
  IF i > Len(outputs) THEN 0
  ELSE IF Len(outputs[i].lock_args) < 20 \/ Len(a) < 20 THEN -1
  ELSE LET later == Locate_last(outputs, a, i + 1)
       IN  IF later # 0 THEN later
           ELSE IF SubSeq(outputs[i].lock_args, 1, 20) = SubSeq(a, 1, 20) THEN i
           ELSE 0

\* the loop of validate over the outputs: the first index from i whose lock
\* arguments start with the 20 bytes of the script's arguments; 0 when there
\* is none; -1 when a slice [0..20] panics on arguments shorter than 20 bytes
RECURSIVE Locate(_, _, _)
Locate(outputs, a, i) ==
  IF i > Len(outputs) THEN 0
  ELSE IF Len(outputs[i].lock_args) < 20 \/ Len(a) < 20 THEN -1
  ELSE IF SubSeq(outputs[i].lock_args, 1, 20) = SubSeq(a, 1, 20) THEN i
  ELSE Locate(outputs, a, i + 1)

\* the four loads of the matched index, each ending the run on its error;
\* loads counts the load_cell_capacity and load_cell_data calls made
LoadPair(t, index) ==
  LET ic == load_cell_capacity(t.inputs, index)
      oc == load_cell_capacity(t.outputs, index)
      io == parse_cell_data(t.inputs, index)
      oo == parse_cell_data(t.outputs, index)
      r(e, n) == [err |-> e, loads |-> n, input_capacity |-> ic.val,
                  output_capacity |-> oc.val, input_order |-> io.val,
                  output_order |-> oo.val]
  IN  IF ic.err # "" THEN r(ic.err, 1)
      ELSE IF oc.err # "" THEN r(oc.err, 2)
      ELSE IF io.err # "" THEN r(io.err, 3)
      ELSE IF oo.err # "" THEN r(oo.err, 4)
      ELSE r("", 4)

\* what validate holds after its loop: the matched index (0: none), the two
\* capacities and the two records, initialised to zero
NoPair ==
  [err |-> "", loads |-> 0, input_capacity |-> U64(<< >>),
   output_capacity |-> U64(<< >>), input_order |-> _init_order_data,
   output_order |-> _init_order_data]

\* the Buy branch with the two undealt amounts the wrong way round, in the
\* comparison and in the difference
CheckBuy_reversed(input_capacity, output_capacity, input_order, output_order) ==
  LET order_price == FDiv(F64, FromNat(F64, input_order.price), consts.PRICE_PARAM)
      diff_undealt_amount ==
        FromNat(F64, NatSub(output_order.undealt_amount, input_order.undealt_amount))
      diff_dealt_amount ==
        FromNat(F64, NatSub(output_order.dealt_amount, input_order.dealt_amount))
      diff_capacity == FromNat(F64, NatSub(input_capacity, output_capacity))
      diff_sudt_amount ==
        FromNat(F64, NatSub(output_order.sudt_amount, input_order.sudt_amount))
  IN  IF NatLt(input_capacity, output_capacity) THEN "WrongDiffCapacity"
      ELSE IF NatGt(input_order.sudt_amount, output_order.sudt_amount)
              \/ NatGt(input_order.undealt_amount, output_order.undealt_amount)
      THEN "WrongSUDTDiffAmount"
      ELSE IF ~IsZero(output_order.dealt_amount) /\ ~IsZero(output_order.undealt_amount)
              /\ NatGt(input_order.dealt_amount, output_order.dealt_amount)
      THEN "WrongSUDTDiffAmount"
      ELSE IF ~IsZero(output_order.dealt_amount) /\ ~IsZero(output_order.undealt_amount)
              /\ FNe(diff_dealt_amount, diff_undealt_amount)
      THEN "WrongSUDTDiffAmount"
      ELSE IF FNe(diff_sudt_amount, diff_undealt_amount) THEN "WrongSUDTDiffAmount"
      ELSE IF FGt(FSub(F64, diff_undealt_amount,
                       FDiv(F64, FDiv(F64, diff_capacity, consts.ONE_PLUS_FEE),
                            order_price)),
                  consts.TOLERANCE)
      THEN "WrongSwapAmount"
      ELSE "Ok"

\* the checks of validate on the capacities and records it holds
CheckBuy(input_capacity, output_capacity, input_order, output_order) ==
  LET order_price == FDiv(F64, FromNat(F64, input_order.price), consts.PRICE_PARAM)
      diff_undealt_amount ==
        FromNat(F64, NatSub(input_order.undealt_amount, output_order.undealt_amount))
      diff_dealt_amount ==
        FromNat(F64, NatSub(output_order.dealt_amount, input_order.dealt_amount))
      diff_capacity == FromNat(F64, NatSub(input_capacity, output_capacity))
      diff_sudt_amount ==
        FromNat(F64, NatSub(output_order.sudt_amount, input_order.sudt_amount))
  IN  IF NatLt(input_capacity, output_capacity) THEN "WrongDiffCapacity"
      ELSE IF NatGt(input_order.sudt_amount, output_order.sudt_amount)
              \/ NatLt(input_order.undealt_amount, output_order.undealt_amount)
      THEN "WrongSUDTDiffAmount"
      ELSE IF ~IsZero(output_order.dealt_amount) /\ ~IsZero(output_order.undealt_amount)
              /\ NatGt(input_order.dealt_amount, output_order.dealt_amount)
      THEN "WrongSUDTDiffAmount"
      ELSE IF ~IsZero(output_order.dealt_amount) /\ ~IsZero(output_order.undealt_amount)
              /\ FNe(diff_dealt_amount, diff_undealt_amount)
      THEN "WrongSUDTDiffAmount"
      ELSE IF FNe(diff_sudt_amount, diff_undealt_amount) THEN "WrongSUDTDiffAmount"
      ELSE IF FGt(FSub(F64, diff_undealt_amount,
                       FDiv(F64, FDiv(F64, diff_capacity, consts.ONE_PLUS_FEE),
                            order_price)),
                  consts.TOLERANCE)
      THEN "WrongSwapAmount"
      ELSE "Ok"

CheckSell(input_capacity, output_capacity, input_order, output_order) ==
  LET order_price == FDiv(F64, FromNat(F64, input_order.price), consts.PRICE_PARAM)
      diff_undealt_amount ==
        FromNat(F64, NatSub(input_order.undealt_amount, output_order.undealt_amount))
      diff_dealt_amount ==
        FromNat(F64, NatSub(output_order.dealt_amount, input_order.dealt_amount))
      diff_capacity == FromNat(F64, NatSub(output_capacity, input_capacity))
      diff_sudt_amount ==
        FromNat(F64, NatSub(input_order.sudt_amount, output_order.sudt_amount))
  IN  IF NatGt(input_capacity, output_capacity) THEN "WrongDiffCapacity"
      ELSE IF NatLt(input_order.sudt_amount, output_order.sudt_amount)
              \/ NatLt(input_order.undealt_amount, output_order.undealt_amount)
      THEN "WrongSUDTDiffAmount"
      ELSE IF (~IsZero(output_order.dealt_amount) \/ ~IsZero(output_order.undealt_amount))
              /\ NatGt(input_order.dealt_amount, output_order.dealt_amount)
      THEN "WrongSUDTDiffAmount"
      ELSE IF (~IsZero(output_order.dealt_amount) \/ ~IsZero(output_order.undealt_amount))
              /\ FNe(diff_dealt_amount, diff_undealt_amount)
      THEN "WrongSUDTDiffAmount"
      ELSE IF FGt(FSub(F64, diff_sudt_amount,
                       FMul(F64, diff_undealt_amount, consts.ONE_PLUS_FEE)),
                  consts.TOLERANCE)
      THEN "WrongSUDTDiffAmount"
      ELSE IF FLt(diff_capacity,
                  FDiv(F64, FDiv(F64, diff_sudt_amount, consts.ONE_PLUS_FEE),
                       order_price))
      THEN "WrongSwapAmount"
      ELSE "Ok"

\* the checks with the order type read as a flag: every record that is not a
\* Sell order is checked as a Buy order
CheckOrder_type_as_flag(input_capacity, output_capacity, input_order, output_order) ==
  IF IsZero(input_order.undealt_amount) THEN "WrongSUDTInputAmount"
  ELSE IF IsZero(input_order.price) THEN "OrderPriceNotZero"
  ELSE IF input_order.order_type # 1
  THEN CheckBuy(input_capacity, output_capacity, input_order, output_order)
  ELSE CheckSell(input_capacity, output_capacity, input_order, output_order)

\* the checks with the price looked at before the undealt amount
CheckOrder_price_first(input_capacity, output_capacity, input_order, output_order) ==
  IF IsZero(input_order.price) THEN "OrderPriceNotZero"
  ELSE IF IsZero(input_order.undealt_amount) THEN "WrongSUDTInputAmount"
  ELSE IF input_order.order_type = 0
  THEN CheckBuy(input_capacity, output_capacity, input_order, output_order)
  ELSE IF input_order.order_type = 1
  THEN CheckSell(input_capacity, output_capacity, input_order, output_order)
  ELSE "WrongOrderType"

CheckOrder(input_capacity, output_capacity, input_order, output_order) ==
  IF IsZero(input_order.undealt_amount) THEN "WrongSUDTInputAmount"
  ELSE IF IsZero(input_order.price) THEN "OrderPriceNotZero"
  ELSE IF input_order.order_type = 0
  THEN CheckBuy(input_capacity, output_capacity, input_order, output_order)
  ELSE IF input_order.order_type = 1
  THEN CheckSell(input_capacity, output_capacity, input_order, output_order)
  ELSE "WrongOrderType"

\* validate failing when its loop finds no output of the owner
validate_unmatched_fails(a, t) ==
  IF Len(t.inputs) # Len(t.outputs)
  THEN [verdict |-> "InputsAndOutputsAmountNotSame", loads |-> 0, index |-> 0]
  ELSE LET index == Locate(t.outputs, a, 1)
           got   == IF index > 0 THEN LoadPair(t, index) ELSE NoPair
       IN  IF index < 0 THEN [verdict |-> "Panic", loads |-> 0, index |-> 0]
           ELSE IF index = 0 THEN [verdict |-> "IndexOutOfBound", loads |-> 0, index |-> 0]
           ELSE IF got.err # ""
           THEN [verdict |-> got.err, loads |-> got.loads, index |-> index]
           ELSE [verdict |-> CheckOrder(got.input_capacity, got.output_capacity,
                                        got.input_order, got.output_order),
                 loads |-> got.loads, index |-> index]

\* validate(): [verdict, loads, index]; verdict "Ok", the error, or "Panic"
validate(a, t) ==
  IF Len(t.inputs) # Len(t.outputs)
  THEN [verdict |-> "InputsAndOutputsAmountNotSame", loads |-> 0, index |-> 0]
  ELSE LET index == Locate(t.outputs, a, 1)
           got   == IF index > 0 THEN LoadPair(t, index) ELSE NoPair
       IN  IF index < 0 THEN [verdict |-> "Panic", loads |-> 0, index |-> 0]
           ELSE IF got.err # ""
           THEN [verdict |-> got.err, loads |-> got.loads, index |-> index]
           ELSE [verdict |-> CheckOrder(got.input_capacity, got.output_capacity,
                                        got.input_order, got.output_order),
                 loads |-> got.loads, index |-> index]

(***************************************************************************)
(* entry.rs                                                                *)
(***************************************************************************)

entry_ORDER_LEN == 41
entry_SUDT_LEN == 16

\* const FEE: f32 = 0.003, const PRICE_PARAM: f32 = 10000000000.0, and the
\* literal 1.0 + FEE of validate_order
entry_FEE == FDiv(F32, FromNat(F32, NatOf(3)), FromNat(F32, NatOf(1000)))
entry_PRICE_PARAM == FromNat(F32, NatMul(NatOf(100000), NatOf(100000)))
entry_ONE_PLUS_FEE == FAdd(F32, FromNat(F32, NatOf(1)), entry_FEE)

entry_init_order_data ==
  [dealt_amount |-> U128(<< >>), undealt_amount |-> U128(<< >>),
   price |-> U64(<< >>), order_type |-> 0]

entry_parse_order_data(data) ==
  IF Len(data) # entry_SUDT_LEN /\ Len(data) # entry_ORDER_LEN
  THEN [err |-> "WrongDataLengthOrFormat", val |-> entry_init_order_data]
  ELSE [err |-> "",
        val |-> IF Len(data) = 41
                THEN [dealt_amount   |-> SubSeq(data, 1, 16),
                      undealt_amount |-> SubSeq(data, 17, 32),
                      price          |-> SubSeq(data, 33, 40),
                      order_type     |-> data[41]]
                ELSE [entry_init_order_data EXCEPT !.dealt_amount = SubSeq(data, 1, 16)]]

entry_parse_cell_data(cells, index) ==
  LET data == load_cell_data(cells, index)
  IN  IF data.err # "" THEN [err |-> data.err, val |-> entry_init_order_data]
      ELSE IF Len(data.val) = entry_ORDER_LEN \/ Len(data.val) = entry_SUDT_LEN
      THEN entry_parse_order_data(data.val)
      ELSE [err |-> "", val |-> entry_init_order_data]

entry_LoadPair(t, index) ==
  LET ic == load_cell_capacity(t.inputs, index)
      oc == load_cell_capacity(t.outputs, index)
      io == entry_parse_cell_data(t.inputs, index)
      oo == entry_parse_cell_data(t.outputs, index)
      r(e, n) == [err |-> e, loads |-> n, input_capacity |-> ic.val,
                  output_capacity |-> oc.val, input_order |-> io.val,
                  output_order |-> oo.val]
  IN  IF ic.err # "" THEN r(ic.err, 1)
      ELSE IF oc.err # "" THEN r(oc.err, 2)
      ELSE IF io.err # "" THEN r(io.err, 3)
      ELSE IF oo.err # "" THEN r(oo.err, 4)
      ELSE r("", 4)

entry_NoPair ==
  [err |-> "", loads |-> 0, input_capacity |-> U64(<< >>),
   output_capacity |-> U64(<< >>), input_order |-> entry_init_order_data,
   output_order |-> entry_init_order_data]

entry_CheckBuy(input_capacity, output_capacity, input_order_data, output_order_data) ==
  LET order_price ==
        FDiv(F32, FromNat(F32, input_order_data.price), consts.entry_PRICE_PARAM)
      diff_capacity == FromNat(F32, NatSub(input_capacity, output_capacity))
      diff_sudt_amount ==
        FromNat(F32, NatSub(output_order_data.dealt_amount, input_order_data.dealt_amount))
  IN  IF NatLt(input_capacity, output_capacity)
         \/ NatGt(input_order_data.dealt_amount, output_order_data.dealt_amount)
      THEN "WrongSUDTDiffAmount"
      ELSE IF FLt(diff_sudt_amount,
                  FDiv(F32, FDiv(F32, diff_capacity, consts.entry_ONE_PLUS_FEE),
                       order_price))
      THEN "WrongSUDTDiffAmount"
      ELSE "Ok"

entry_CheckSell(input_capacity, output_capacity, input_order_data, output_order_data) ==
  LET order_price ==
        FDiv(F32, FromNat(F32, input_order_data.price), consts.entry_PRICE_PARAM)
      diff_capacity == FromNat(F32, NatSub(output_capacity, input_capacity))
      diff_sudt_amount ==
        FromNat(F32, NatSub(input_order_data.undealt_amount,
                            output_order_data.undealt_amount))
  IN  IF NatGt(input_capacity, output_capacity)
         \/ NatLt(input_order_data.undealt_amount, output_order_data.undealt_amount)
      THEN "WrongSUDTDiffAmount"
      ELSE IF FLt(diff_capacity,
                  FDiv(F32, FDiv(F32, diff_sudt_amount, consts.entry_ONE_PLUS_FEE),
                       order_price))
      THEN "WrongSUDTDiffAmount"
      ELSE "Ok"

entry_CheckOrder(input_capacity, output_capacity, input_order_data, output_order_data) ==
  IF IsZero(input_order_data.undealt_amount) THEN "WrongSUDTInputAmount"
  ELSE IF input_order_data.order_type = 0
  THEN entry_CheckBuy(input_capacity, output_capacity, input_order_data, output_order_data)
  ELSE IF input_order_data.order_type = 1
  THEN entry_CheckSell(input_capacity, output_capacity, input_order_data, output_order_data)
  ELSE "WrongOrderType"

\* validate_order(): [verdict, loads, index]
validate_order(a, t) ==
  LET index == Locate(t.outputs, a, 1)
      got   == IF index > 0 THEN entry_LoadPair(t, index) ELSE entry_NoPair
  IN  IF index < 0 THEN [verdict |-> "Panic", loads |-> 0, index |-> 0]
      ELSE IF got.err # ""
      THEN [verdict |-> got.err, loads |-> got.loads, index |-> index]
      ELSE [verdict |-> entry_CheckOrder(got.input_capacity, got.output_capacity,
                                          got.input_order, got.output_order),
            loads |-> got.loads, index |-> index]

(***************************************************************************)
(* The ledger and the transactions proposed to it (tests.rs builds both    *)
(* with build_test_context).                                               *)
(***************************************************************************)

\* the lock arguments of the two order owners of tests.rs
OwnerA == <<126, 122, 48, 231, 86, 133, 228, 211, 50, 246, 146, 32, 233, 37, 87, 93,
            217, 184, 70, 118>>
OwnerB == <<165, 60, 231, 81, 226, 173, 182, 152, 202, 16, 248, 193, 184, 235, 190, 226,
            13, 65, 168, 66>>

\* 57 bytes: sudt_amount, dealt_amount, undealt_amount, price, order_type
OrderBytes(sudt, dealt, undealt, price, ty) ==
  U128(sudt) \o U128(dealt) \o U128(undealt) \o U64(price) \o <<ty>>

\* 41 bytes: dealt_amount, undealt_amount, price, order_type
entry_OrderBytes(dealt, undealt, price, ty) ==
  U128(dealt) \o U128(undealt) \o U64(price) \o <<ty>>

Cell(capacity, data, lock_args) ==
  [capacity |-> U64(capacity), data |-> data, lock_args |-> lock_args]

E8 == NatOf(100000000)
E10 == NatMul(NatOf(100000), NatOf(100000))
E13 == NatMul(E10, NatOf(1000))
Price(n, d) == NatDivMod(NatMul(NatOf(n), E10), NatOf(d)).q
Two53 == <<0, 0, 0, 0, 0, 0, 32>>
Two60 == <<0, 0, 0, 0, 0, 0, 0, 16>>

NatMonus(a, b) == IF NatLt(a, b) THEN << >> ELSE NatSub(a, b)
CeilDiv(a, d) == NatDivMod(NatAdd(a, NatSub(d, NatOf(1))), d).q

\* capacity for `amount` units at `price`: without and with the 0.3% fee
Net(amount, price) == CeilDiv(NatMul(amount, price), E10)
Gross(amount, price) == CeilDiv(NatMul(NatMul(amount, price), NatOf(1003)), E13)
WithFee(amount) == CeilDiv(NatMul(amount, NatOf(1003)), NatOf(1000))

\* the orders of tests.rs (test_ckb_sudt_all_order1: 50 + 150 sudt bought at
\* 5 ckb, 150.45 sudt to sell), an order pair at price 0.5, and a pair with an
\* order type byte of 2 and a price of 0, and a pair with nothing left to
\* deal and a record of the other length, and a pair of 1234.56789 sudt at
\* 5 ckb
entry_Ledgers ==
  { << Cell(NatMul(NatOf(2000), E8),
            entry_OrderBytes(NatMul(NatOf(50), E8), NatMul(NatOf(150), E8), Price(5, 1), 0),
            OwnerA),
       Cell(NatMul(NatOf(800), E8),
            entry_OrderBytes(NatMul(NatOf(100), E8), NatMul(NatOf(15045), NatOf(1000000)),
                             Price(5, 1), 1),
            OwnerB) >>,
    << Cell(NatOf(100000), entry_OrderBytes(NatOf(0), NatOf(10000), Price(1, 2), 0), OwnerA),
       Cell(NatOf(100000), entry_OrderBytes(NatOf(0), NatOf(10030), Price(1, 2), 1), OwnerB) >>,
    << Cell(NatOf(100000), entry_OrderBytes(NatOf(100), NatOf(1000), Price(5, 1), 2), OwnerA),
       Cell(NatOf(100000), entry_OrderBytes(NatOf(100), NatOf(1000), NatOf(0), 0), OwnerB) >>,
    << Cell(NatOf(100000), entry_OrderBytes(NatOf(100), NatOf(0), Price(5, 1), 0), OwnerA),
       Cell(NatOf(100000),
            OrderBytes(NatOf(100), NatOf(100), NatOf(1000), Price(5, 1), 1), OwnerB) >>,
    << Cell(NatMul(NatOf(10000), E8),
            entry_OrderBytes(NatOf(0), NatMul(NatOf(123456789), NatOf(1000)), Price(5, 1), 0),
            OwnerA),
       Cell(NatOf(1000),
            entry_OrderBytes(NatOf(0), WithFee(NatMul(NatOf(123456789), NatOf(1000))),
                             Price(5, 1), 1),
            OwnerB) >> }

\* the same orders in the 57-byte form, an order with neither undealt amount
\* nor price, a buy order of 2^53 units at the lowest price, a sell order of
\* 2^60 units, and a cell whose data is a record of the other length
order_Ledgers ==
  { << Cell(NatOf(100000),
            OrderBytes(NatOf(100), NatOf(100), NatOf(1000), Price(5, 1), 0), OwnerA),
       Cell(NatOf(100000),
            OrderBytes(NatOf(1003), NatOf(100), NatOf(1000), Price(5, 1), 1), OwnerB) >>,
    << Cell(NatOf(100000),
            OrderBytes(NatOf(0), NatOf(0), NatOf(10000), Price(1, 2), 0), OwnerA),
       Cell(NatOf(100000),
            OrderBytes(NatOf(20000), NatOf(0), NatOf(10000), Price(1, 2), 1), OwnerB) >>,
    << Cell(NatOf(100000),
            OrderBytes(NatOf(100), NatOf(100), NatOf(1000), Price(5, 1), 2), OwnerA),
       Cell(NatOf(100000),
            OrderBytes(NatOf(100), NatOf(100), NatOf(1000), NatOf(0), 0), OwnerB) >>,
    << Cell(NatOf(100000),
            OrderBytes(NatOf(100), NatOf(100), NatOf(0), NatOf(0), 0), OwnerA),
       Cell(NatOf(10000000),
            OrderBytes(NatOf(0), NatOf(0), Two53, NatOf(1), 0), OwnerB) >>,
    << Cell(NatOf(1000),
            OrderBytes(WithFee(Two60), NatOf(0), Two60, Price(1, 1), 1), OwnerA),
       Cell(NatOf(100000),
            entry_OrderBytes(NatOf(100), NatOf(1000), Price(5, 1), 0), OwnerB) >> }

NoTx == [inputs |-> << >>, outputs |-> << >>, witness |-> FALSE]
NoResult == [verdict |-> "", loads |-> 0, index |-> 0]

Init ==
  /\ build \in {"entry", "order"}
  /\ consts = [FEE |-> FEE, PRICE_PARAM |-> PRICE_PARAM, ONE_PLUS_FEE |-> ONE_PLUS_FEE,
               TOLERANCE |-> TOLERANCE, entry_FEE |-> entry_FEE,
               entry_PRICE_PARAM |-> entry_PRICE_PARAM,
               entry_ONE_PLUS_FEE |-> entry_ONE_PLUS_FEE]
  /\ live \in (IF build = "entry" THEN entry_Ledgers ELSE order_Ledgers)
  /\ fills = 0
  /\ args = << >>
  /\ tx = NoTx
  /\ pc = "Idle"
  /\ result = NoResult

\* the fields of an order cell as the deployed script decodes them
View(c) ==
  IF build = "order"
  THEN parse_cell_data(<<c>>, 1).val
  ELSE LET r == entry_parse_cell_data(<<c>>, 1).val
       IN  [sudt_amount |-> U128(<< >>), dealt_amount |-> r.dealt_amount,
            undealt_amount |-> r.undealt_amount, price |-> r.price,
            order_type |-> r.order_type]

\* cell data in one of the forms a transaction may carry
MkData(form, sudt, dealt, undealt, price, ty) ==
  CASE form = "order" -> IF build = "order" THEN OrderBytes(sudt, dealt, undealt, price, ty)
                         ELSE entry_OrderBytes(dealt, undealt, price, ty)
    [] form = "other" -> IF build = "order" THEN entry_OrderBytes(dealt, undealt, price, ty)
                         ELSE OrderBytes(sudt, dealt, undealt, price, ty)
    [] form = "sudt"  -> IF build = "order" THEN U128(sudt) ELSE U128(dealt)
    [] form = "empty" -> << >>

UModes == {"keep", "part", "all", "grow"}
SModes == {"exact", "fee", "plus1", "reverse"}
DModes == {"lock", "keep", "zero"}
CModes == {"none", "net", "gross", "short", "reverse"}
PModes == {"same", "price", "type"}
Forms == {"sudt", "empty", "other"}
Locks == {"other", "short", "long"}

\* the amount by which the undealt amount moves: down, or up by one ("grow")
Filled(v, umode) ==
  CASE umode = "part" -> NatDivMod(v.undealt_amount, NatOf(5)).q
    [] umode = "all"  -> v.undealt_amount
    [] umode = "grow" -> NatOf(1)
    [] OTHER          -> << >>

\* the output an order cell c is replaced by
OutCell(c, umode, smode, dmode, cmode, pmode, form, lock) ==
  LET v    == View(c)
      buy  == v.order_type # 1
      du   == Filled(v, umode)
      und  == IF umode = "grow" THEN NatAdd(v.undealt_amount, du)
              ELSE NatSub(v.undealt_amount, du)
      ds   == CASE smode = "exact" -> du
                [] smode = "fee"   -> WithFee(du)
                [] smode = "plus1" -> NatAdd(du, NatOf(1))
                [] OTHER           -> << >>
      sudt == IF smode = "reverse"
              THEN (IF buy THEN NatMonus(v.sudt_amount, NatOf(1))
                    ELSE NatAdd(v.sudt_amount, NatOf(1)))
              ELSE (IF buy THEN NatAdd(v.sudt_amount, ds) ELSE NatMonus(v.sudt_amount, ds))
      dealt == CASE dmode = "lock" -> NatAdd(v.dealt_amount, du)
                 [] dmode = "keep" -> v.dealt_amount
                 [] OTHER          -> << >>
      dc   == CASE cmode = "net"   -> Net(du, v.price)
                [] cmode = "gross" -> Gross(du, v.price)
                [] cmode = "short" -> NatMonus(Gross(du, v.price), NatOf(1))
                [] cmode = "reverse" -> NatOf(1)
                [] OTHER           -> << >>
      cap  == IF buy = (cmode # "reverse") THEN NatMonus(c.capacity, dc)
              ELSE NatAdd(c.capacity, dc)
      price == IF pmode = "price" THEN NatAdd(v.price, NatOf(1)) ELSE v.price
      ty   == IF pmode = "type" THEN (IF v.order_type = 0 THEN 1 ELSE 0) ELSE v.order_type
      own  == SubSeq(c.lock_args, 1, 20)
      la   == CASE lock = "own"   -> c.lock_args
                [] lock = "other" -> IF own = OwnerA THEN OwnerB ELSE OwnerA
                [] lock = "short" -> SubSeq(own, 1, 19)
                [] lock = "long"  -> own \o <<0>>
  IN  Cell(cap, MkData(form, sudt, dealt, und, price, ty), la)

\* the longest chain of committed fills explored
MaxFills == 1

Submit(inputs, outputs, witness, a) ==
  /\ tx' = [inputs |-> inputs, outputs |-> outputs, witness |-> witness]
  /\ args' = a
  /\ pc' = "AwaitingDispatch"
  /\ result' = NoResult
  /\ UNCHANGED <<build, consts, live, fills>>

\* a transaction spending one order cell and recreating it under the owner's
\* lock, with every combination of the changes of the undealt, sudt and dealt
\* amounts and of the capacity, and with one of them, the price or the order
\* type changed the wrong way
ProposeFill ==
  /\ pc = "Idle"
  /\ fills < MaxFills
  /\ \E s \in 1..Len(live), umode \in UModes, smode \in SModes, dmode \in DModes,
        cmode \in CModes, pmode \in PModes :
       /\ build = "entry" => smode = "exact"
       /\ Cardinality({smode, cmode} \cap {"reverse"}) + Cardinality({pmode} \ {"same"}) <= 1
       /\ smode = "reverse" => dmode = "lock" /\ cmode = "gross"
       /\ cmode = "reverse" => dmode = "lock" /\ smode = "exact"
       /\ pmode # "same" => dmode = "lock" /\ smode = "exact" /\ cmode \in {"net", "gross"}
       /\ Submit(<<live[s]>>,
                 <<OutCell(live[s], umode, smode, dmode, cmode, pmode, "order", "own")>>,
                 FALSE, live[s].lock_args)

\* the same with output data that is not an order record of the deployed
\* length: a bare 16-byte amount, empty data, the other build's record
ProposeForm ==
  /\ pc = "Idle"
  /\ fills < MaxFills
  /\ \E s \in 1..Len(live), umode \in {"part", "all"}, smode \in {"exact", "fee", "plus1"},
        cmode \in {"none", "net", "gross"}, form \in Forms :
       /\ build = "entry" => smode = "exact"
       /\ Submit(<<live[s]>>,
                 <<OutCell(live[s], umode, smode, "lock", cmode, "same", form, "own")>>,
                 FALSE, live[s].lock_args)

\* the same with an output that is not under the owner's 20-byte lock
\* arguments, or under longer arguments that begin with them
ProposeLock ==
  /\ pc = "Idle"
  /\ fills < MaxFills
  /\ \E s \in 1..Len(live), umode \in {"keep", "part"}, lock \in Locks, witness \in BOOLEAN :
       Submit(<<live[s]>>,
              <<OutCell(live[s], umode, "exact", "lock", "gross", "same", "order", lock)>>,
              witness, live[s].lock_args)

\* the counterparty's output of a match of `amount` units: the seller gives
\* up the amount plus the fee and gains the net capacity
SellerOut(c, amount, price, form) ==
  LET v == View(c)
      d == IF build = "order" THEN amount ELSE WithFee(amount)
  IN  Cell(NatAdd(c.capacity, Net(amount, price)),
           MkData(form, NatMonus(v.sudt_amount, WithFee(amount)), NatAdd(v.dealt_amount, d),
                  NatMonus(v.undealt_amount, d), v.price, v.order_type),
           c.lock_args)

Deviations == {"none", "swap", "extra", "missing", "dup"}

\* the outputs of a matching transaction and of its malformed variants
MatchOutputs(dev, a, b) ==
  CASE dev = "none"    -> <<a, b>>
    [] dev = "swap"    -> <<b, a>>
    [] dev = "extra"   -> <<a, b, b>>
    [] dev = "missing" -> <<a>>
    [] dev = "dup"     -> <<a, [b EXCEPT !.lock_args = a.lock_args]>>

\* a transaction matching the two live orders against each other, as the
\* tests build it, and its malformed variants
ProposeMatch ==
  /\ pc = "Idle"
  /\ fills < MaxFills
  /\ Len(live) = 2
  /\ \E umode \in {"part", "all"}, aform \in {"order", "sudt"}, bform \in {"order", "empty"},
        dev \in Deviations, witness \in BOOLEAN, s \in 1..2 :
       Submit(live,
              MatchOutputs(dev,
                           OutCell(live[1], umode, "exact", "lock", "gross", "same", aform, "own"),
                           SellerOut(live[2], Filled(View(live[1]), umode),
                                     View(live[1]).price, bform)),
              witness, live[s].lock_args)

Finish(r) ==
  /\ result' = r
  /\ pc' = IF r.verdict = "Ok" THEN "Accepted" ELSE "Rejected"
  /\ UNCHANGED <<build, consts, live, fills, args, tx>>

\* entry.rs main: the call of validate_order is unconditional; the witness
\* is not read
main ==
  /\ build = "entry"
  /\ pc = "AwaitingDispatch"
  /\ pc' = "OrderPath"
  /\ UNCHANGED <<build, consts, live, fills, args, tx, result>>

RunValidateOrder ==
  /\ build = "entry"
  /\ pc = "OrderPath"
  /\ Finish(validate_order(args, tx))

\* order.rs validate, which no main calls: run on the proposed transaction
RunValidate ==
  /\ build = "order"
  /\ pc = "AwaitingDispatch"
  /\ Finish(validate(args, tx))

\* the slot of the order whose lock script ran
SlotOf(a) == CHOOSE s \in 1..Len(live) : SubSeq(live[s].lock_args, 1, 20) = SubSeq(a, 1, 20)

\* an accepted transaction is committed: the matched output is the order's
\* new cell
Commit ==
  /\ pc = "Accepted"
  /\ fills < MaxFills
  /\ live' = [live EXCEPT ![SlotOf(args)] = tx.outputs[result.index]]
  /\ fills' = fills + 1
  /\ pc' = "Idle"
  /\ tx' = NoTx
  /\ args' = << >>
  /\ result' = NoResult
  /\ UNCHANGED <<build, consts>>

Discard ==
  /\ pc \in {"Accepted", "Rejected"}
  /\ pc' = "Idle"
  /\ tx' = NoTx
  /\ args' = << >>
  /\ result' = NoResult
  /\ UNCHANGED <<build, consts, live, fills>>

Next ==
  \/ ProposeFill
  \/ ProposeForm
  \/ ProposeLock
  \/ ProposeMatch
  \/ main
  \/ RunValidateOrder
  \/ RunValidate
  \/ Commit
  \/ Discard

Spec == Init /\ [][Next]_vars

(***************************************************************************)
(* The pair a finished run was decided on.                                 *)
(***************************************************************************)

Ran == pc \in {"Accepted", "Rejected"}

\* the run loaded the cells of a matched index
HasPair == Ran /\ result.index > 0 /\ result.index <= Len(tx.inputs)

InRec == View(tx.inputs[result.index])
OutRec == View(tx.outputs[result.index])
InCap == tx.inputs[result.index].capacity
OutCap == tx.outputs[result.index].capacity

NatLe(a, b) == ~NatGt(a, b)

\* the checks validate makes before the order type is looked at have passed
Open == build = "order" /\ HasPair /\ ~IsZero(InRec.undealt_amount) /\ ~IsZero(InRec.price)

\* the dealt amount moves with the undealt amount, where the branch asks it
LockStep(applies) ==
  applies => /\ NatLe(InRec.dealt_amount, OutRec.dealt_amount)
             /\ NatEq(NatSub(OutRec.dealt_amount, InRec.dealt_amount),
                      NatSub(InRec.undealt_amount, OutRec.undealt_amount))

BuyMonotone ==
  /\ NatLe(OutCap, InCap)
  /\ NatLe(InRec.sudt_amount, OutRec.sudt_amount)
  /\ NatLe(OutRec.undealt_amount, InRec.undealt_amount)

BuySudtEq ==
  NatEq(NatSub(OutRec.sudt_amount, InRec.sudt_amount),
        NatSub(InRec.undealt_amount, OutRec.undealt_amount))

\* du - dc / 1.003 / (price / 10^10) <= 0.001, cleared of its denominators:
\* 1000 * 1003 * price * du <= 1000 * 10^13 * dc + 1003 * price
BuyPriceBound ==
  LET du == NatSub(InRec.undealt_amount, OutRec.undealt_amount)
      dc == NatSub(InCap, OutCap)
      k  == NatMul(NatOf(1003), InRec.price)
  IN  NatLe(NatMul(NatMul(NatOf(1000), k), du),
            NatAdd(NatMul(NatMul(NatOf(1000), E13), dc), k))

\* C1: every accepted Buy fill has output.sudt >= input.sudt, output.undealt
\* <= input.undealt, the sudt increase equal to the undealt decrease as
\* integers, and the price bound within 0.001; an unequal pair is rejected
\* with WrongSUDTDiffAmount and a broken price bound with WrongSwapAmount
C1_BuyConservation ==
  (Open /\ InRec.order_type = 0) =>
    /\ pc = "Accepted" => BuyMonotone /\ BuySudtEq /\ BuyPriceBound
    /\ (BuyMonotone /\ ~BuySudtEq) => result.verdict = "WrongSUDTDiffAmount"
    /\ (BuyMonotone /\ BuySudtEq /\ ~BuyPriceBound
        /\ LockStep(~IsZero(OutRec.dealt_amount) /\ ~IsZero(OutRec.undealt_amount)))
       => result.verdict = "WrongSwapAmount"

\* an accepted Buy fill whose sudt increase is not its undealt decrease
C1_UnequalAccepted ==
  /\ Open /\ InRec.order_type = 0 /\ pc = "Accepted"
  /\ ~BuySudtEq

SellMonotone ==
  /\ NatLe(InCap, OutCap)
  /\ NatLe(OutRec.sudt_amount, InRec.sudt_amount)
  /\ NatLe(OutRec.undealt_amount, InRec.undealt_amount)

\* ds - du * 1.003 <= 0.001, cleared: 1000 * ds <= 1003 * du + 1
SellFeeBound ==
  LET du == NatSub(InRec.undealt_amount, OutRec.undealt_amount)
      ds == NatSub(InRec.sudt_amount, OutRec.sudt_amount)
  IN  NatLe(NatMul(NatOf(1000), ds), NatAdd(NatMul(NatOf(1003), du), NatOf(1)))

\* dc >= ds / 1.003 / (price / 10^10), cleared: 1003 * price * dc >= 10^13 * ds
SellCapacityBound ==
  LET ds == NatSub(InRec.sudt_amount, OutRec.sudt_amount)
      dc == NatSub(OutCap, InCap)
  IN  NatLe(NatMul(E13, ds), NatMul(NatMul(NatOf(1003), InRec.price), dc))

\* C2: every accepted Sell fill has output capacity >= input capacity,
\* output.sudt <= input.sudt, output.undealt <= input.undealt, the sudt given
\* up within 0.001 of the undealt decrease plus the fee, and the capacity
\* gained at least the fee-adjusted value; a broken fee bound is rejected
\* with WrongSUDTDiffAmount and a broken capacity bound with WrongSwapAmount
C2_SellConservation ==
  (Open /\ InRec.order_type = 1) =>
    /\ pc = "Accepted" => SellMonotone /\ SellFeeBound /\ SellCapacityBound
    /\ (SellMonotone /\ ~SellFeeBound) => result.verdict = "WrongSUDTDiffAmount"
    /\ (SellMonotone /\ SellFeeBound /\ ~SellCapacityBound
        /\ LockStep(~IsZero(OutRec.dealt_amount) \/ ~IsZero(OutRec.undealt_amount)))
       => result.verdict = "WrongSwapAmount"

\* an accepted Sell fill that gives up more sudt than the undealt decrease
\* plus the fee and the tolerance
C2_OverchargedAccepted ==
  /\ Open /\ InRec.order_type = 1 /\ pc = "Accepted"
  /\ ~SellFeeBound

\* C3: a matched pair whose output undealt amount exceeds the input's is
\* rejected by validate whatever the other fields and the capacities are, and
\* a committed fill never raises the undealt amount of the order it was
\* validated against
C3_Monotonicity ==
  /\ []((build = "order" /\ HasPair
          /\ NatGt(OutRec.undealt_amount, InRec.undealt_amount)) => pc = "Rejected")
  /\ [][(build = "order" /\ pc = "Accepted" /\ fills' = fills + 1
         /\ tx.inputs[result.index] = live[SlotOf(args)])
        => NatLe(View(live'[SlotOf(args)]).undealt_amount,
                 View(live[SlotOf(args)]).undealt_amount)]_vars

\* a rejected transaction whose matched output raises the undealt amount
\* while the capacity pays for the raise
C3_GrowRejected ==
  /\ build = "order" /\ HasPair /\ pc = "Rejected"
  /\ NatGt(OutRec.undealt_amount, InRec.undealt_amount)
  /\ ~IsZero(InRec.undealt_amount) /\ ~IsZero(InRec.price)
  /\ InRec.order_type = 0 /\ NatLt(OutCap, InCap)

\* C4: every accepted transaction whose matched output is a 57-byte record
\* carries the input's price in it
C4_PriceFixed ==
  (build = "order" /\ HasPair /\ pc = "Accepted"
   /\ Len(tx.outputs[result.index].data) = ORDER_LEN)
  => NatEq(OutRec.price, InRec.price)

\* an accepted fill that changes the price of the order
C4_PriceChanged ==
  /\ build = "order" /\ HasPair /\ pc = "Accepted"
  /\ Len(tx.outputs[result.index].data) = ORDER_LEN
  /\ ~NatEq(OutRec.price, InRec.price)

OtherLength(data) == Len(data) # SUDT_LEN /\ Len(data) # ORDER_LEN

\* the transaction with the data of its matched output replaced
WithOutputData(t, index, data) ==
  [t EXCEPT !.outputs = [t.outputs EXCEPT ![index] = [@ EXCEPT !.data = data]]]

\* C5: parse_order_data fails with WrongDataLengthOrFormat on data of a
\* length other than 16 and 57, but parse_cell_data, which validate calls,
\* returns the all-zero record for it without an error: a matched input of
\* such a length is rejected with WrongSUDTInputAmount, and a matched output
\* of such a length is judged as the all-zero record
C5_OtherLengths ==
  build = "order" =>
    /\ \A t \in {tx.inputs, tx.outputs} : \A i \in 1..Len(t) :
         OtherLength(t[i].data) =>
           /\ parse_order_data(t[i].data).err = "WrongDataLengthOrFormat"
           /\ parse_cell_data(t, i) = [err |-> "", val |-> _init_order_data]
    /\ (HasPair /\ OtherLength(tx.inputs[result.index].data))
       => result.verdict = "WrongSUDTInputAmount"
    /\ (HasPair /\ OtherLength(tx.outputs[result.index].data))
       => result = validate(args, WithOutputData(tx, result.index, U128(<< >>)))

\* an accepted transaction whose matched output has empty data
C5_EmptyOutputAccepted ==
  /\ build = "order" /\ HasPair /\ pc = "Accepted"
  /\ Len(tx.outputs[result.index].data) = 0

\* C5 as stated: a matched input or output of a length other than 16 and 57
\* is rejected with WrongDataLengthOrFormat
C5_MalformedRejected ==
  (build = "order" /\ HasPair
   /\ (OtherLength(tx.inputs[result.index].data)
       \/ OtherLength(tx.outputs[result.index].data)))
  => result.verdict = "WrongDataLengthOrFormat"

\* C6: with a matched pair, an input price of 0 is rejected with
\* OrderPriceNotZero when the input undealt amount is not 0, and with
\* WrongSUDTInputAmount when it is 0
C6_ZeroPrice ==
  (build = "order" /\ HasPair /\ IsZero(InRec.price)) =>
    result.verdict = IF IsZero(InRec.undealt_amount) THEN "WrongSUDTInputAmount"
                     ELSE "OrderPriceNotZero"

\* a run rejected for the zero price of its matched input
C6_ZeroPriceRejected ==
  /\ build = "order" /\ HasPair /\ IsZero(InRec.price)
  /\ ~IsZero(InRec.undealt_amount)
  /\ result.verdict = "OrderPriceNotZero"

\* C6 as stated: an input price of 0 is rejected with OrderPriceNotZero
\* whatever the other fields are
C6_AlwaysPriceError ==
  (build = "order" /\ HasPair /\ IsZero(InRec.price))
  => result.verdict = "OrderPriceNotZero"

\* C7: on every path from an entry point, a transaction with different
\* numbers of inputs and outputs is rejected with
\* InputsAndOutputsAmountNotSame before any capacity or data is loaded
C7_CountMismatch ==
  (Ran /\ Len(tx.inputs) # Len(tx.outputs))
  => result.verdict = "InputsAndOutputsAmountNotSame" /\ result.loads = 0

\* the same for validate of order.rs alone
C7_ValidateCountsFirst ==
  (build = "order" /\ Ran /\ Len(tx.inputs) # Len(tx.outputs))
  => result.verdict = "InputsAndOutputsAmountNotSame" /\ result.loads = 0

\* main has accepted a transaction whose numbers of inputs and outputs differ
C7_MismatchAccepted ==
  /\ build = "entry" /\ pc = "Accepted"
  /\ Len(tx.inputs) # Len(tx.outputs)
  /\ result.loads > 0

\* C8: when no output is under the owner's lock arguments, validate loads
\* nothing, goes on with the all-zero records and rejects with
\* WrongSUDTInputAmount; output lock arguments shorter than 20 bytes met
\* before a match abort the run
C8_NoMatchDefaults ==
  (build = "order" /\ Ran /\ Len(tx.inputs) = Len(tx.outputs)) =>
    /\ Locate(tx.outputs, args, 1) = 0
       => result = [verdict |-> "WrongSUDTInputAmount", loads |-> 0, index |-> 0]
    /\ Locate(tx.outputs, args, 1) < 0 => result.verdict = "Panic"

\* a run without a matching output, rejected for the zero undealt amount
C8_NoMatchRejected ==
  /\ build = "order" /\ Ran /\ Len(tx.inputs) = Len(tx.outputs)
  /\ Locate(tx.outputs, args, 1) = 0
  /\ result.verdict = "WrongSUDTInputAmount"

\* C8 as stated: without a matching output the run fails with
\* IndexOutOfBound or ItemMissing
C8_NoMatchFails ==
  (build = "order" /\ Ran /\ Len(tx.inputs) = Len(tx.outputs)
   /\ Locate(tx.outputs, args, 1) = 0)
  => result.verdict \in {"IndexOutOfBound", "ItemMissing"}

\* C9: main routes a transaction that carries a witness for the script away
\* from the order path, so the order checks are not run on it, and every
\* position of a run is one of the dispatcher's
C9_WitnessDispatch ==
  /\ pc \in {"Idle", "AwaitingDispatch", "SignaturePath", "OrderPath", "Accepted", "Rejected"}
  /\ (build = "entry" /\ tx.witness) => pc # "OrderPath"

\* what main does instead: whatever the witness, a finished run carries the
\* verdict of validate_order and is accepted exactly when that is Ok
C9_MainIgnoresWitness ==
  (build = "entry" /\ Ran) =>
    /\ result = validate_order(args, tx)
    /\ pc = "Accepted" <=> result.verdict = "Ok"

\* a transaction with a witness accepted by the order checks
C9_WitnessOrderChecked ==
  /\ build = "entry" /\ tx.witness /\ pc = "Accepted"
  /\ result.loads > 0

\* a buy order at index 1 and a sell order at index 2, of the same price,
\* matched at that price for `tokens`: the buyer pays tokens * price * 1.003,
\* the seller gains tokens * price and gives up tokens * 1.003 undealt; the
\* outputs are open orders, or the settled forms of a full fill
ExactMatch ==
  /\ build = "entry"
  /\ Len(tx.inputs) = 2 /\ Len(tx.outputs) = 2
  /\ \A i \in 1..2 : /\ tx.outputs[i].lock_args = tx.inputs[i].lock_args
                     /\ Len(tx.inputs[i].data) = entry_ORDER_LEN
  /\ tx.inputs[1].lock_args # tx.inputs[2].lock_args
  /\ LET b  == View(tx.inputs[1])
         s  == View(tx.inputs[2])
         bo == View(tx.outputs[1])
         so == View(tx.outputs[2])
         tokens == NatSub(bo.dealt_amount, b.dealt_amount)
     IN  /\ b.order_type = 0 /\ s.order_type = 1
         /\ NatEq(b.price, s.price) /\ ~IsZero(b.price)
         /\ NatGt(bo.dealt_amount, b.dealt_amount)
         /\ NatLe(tokens, b.undealt_amount)
         /\ \/ /\ Len(tx.outputs[1].data) = entry_ORDER_LEN
               /\ NatEq(bo.undealt_amount, NatSub(b.undealt_amount, tokens))
               /\ NatEq(bo.price, b.price) /\ bo.order_type = 0
            \/ /\ Len(tx.outputs[1].data) = entry_SUDT_LEN
               /\ NatEq(tokens, b.undealt_amount)
         /\ NatLe(tx.outputs[1].capacity, tx.inputs[1].capacity)
         /\ NatEq(NatMul(E13, NatSub(tx.inputs[1].capacity, tx.outputs[1].capacity)),
                  NatMul(NatMul(tokens, b.price), NatOf(1003)))
         /\ NatLe(tx.inputs[2].capacity, tx.outputs[2].capacity)
         /\ NatEq(NatMul(E10, NatSub(tx.outputs[2].capacity, tx.inputs[2].capacity)),
                  NatMul(tokens, b.price))
         /\ NatLe(so.undealt_amount, s.undealt_amount)
         /\ NatEq(NatMul(NatOf(1000), NatSub(s.undealt_amount, so.undealt_amount)),
                  NatMul(NatOf(1003), tokens))
         /\ \/ /\ Len(tx.outputs[2].data) = entry_ORDER_LEN
               /\ NatEq(so.price, s.price) /\ so.order_type = 1
            \/ Len(tx.outputs[2].data) = 0

\* C10: an exact match is accepted by the run of either owner
C10_ExactMatchAccepted ==
  (Ran /\ ExactMatch) => pc = "Accepted"

\* the matches of the amounts of tests.rs (150 and 30 sudt at 5 ckb) are
\* accepted by the run of either owner
C10_TestMatchAccepted ==
  (Ran /\ ExactMatch /\ live = CHOOSE l \in entry_Ledgers :
                                 View(l[1]).undealt_amount = U128(NatMul(NatOf(150), E8)))
  => pc = "Accepted"

\* an exact match at 5 ckb rejected by the run of the buyer
C10_ExactMatchRejected ==
  /\ Ran /\ ExactMatch /\ pc = "Rejected"
  /\ NatEq(View(tx.inputs[1]).price, Price(5, 1))
  /\ args = tx.inputs[1].lock_args

\* the matched input is an order with an undealt amount and a price whose
\* order_type byte is neither 0 (Buy) nor 1 (Sell)
UnknownType ==
  /\ HasPair /\ Len(tx.inputs) = Len(tx.outputs)
  /\ ~IsZero(InRec.undealt_amount) /\ ~IsZero(InRec.price)
  /\ InRec.order_type \notin {0, 1}

\* C11: a transaction whose matched input record has an order_type byte
\* other than 0 and 1, with equal numbers of inputs and outputs, a non-zero
\* input undealt amount and a non-zero input price, is rejected with
\* WrongOrderType and is not accepted, whatever the output record and the
\* capacities are
C11_WrongOrderType ==
  UnknownType => result.verdict = "WrongOrderType" /\ pc = "Rejected"

\* an order of type 2 whose output is a fill that the Buy checks would pass
\* (undealt down, sudt and dealt up by the same amount, the gross capacity
\* paid), rejected by validate for its type
C11_Type2FillRejected ==
  /\ build = "order" /\ UnknownType /\ InRec.order_type = 2
  /\ result.verdict = "WrongOrderType"
  /\ CheckBuy(InCap, OutCap, InRec, OutRec) = "Ok"
  /\ NatLt(OutRec.undealt_amount, InRec.undealt_amount)

(***************************************************************************)
(* The dealt/undealt lock-step check and the outputs it is applied to.     *)
(***************************************************************************)

\* a finished run of validate on a Buy or Sell order that passed the checks
\* made before the lock-step check
LockStepReached ==
  /\ Open /\ InRec.order_type \in {0, 1}
  /\ IF InRec.order_type = 0 THEN BuyMonotone ELSE SellMonotone

\* the output is still an open order
OutputOpen == ~IsZero(OutRec.dealt_amount) /\ ~IsZero(OutRec.undealt_amount)

\* exactly one of the output's dealt and undealt amounts is 0
OutputHalfOpen == IsZero(OutRec.dealt_amount) # IsZero(OutRec.undealt_amount)

\* output.dealt >= input.dealt and the two differences equal, compared as
\* validate compares them, after the cast to f64
LockStepHolds ==
  /\ NatLe(InRec.dealt_amount, OutRec.dealt_amount)
  /\ ~FNe(FromNat(F64, NatSub(OutRec.dealt_amount, InRec.dealt_amount)),
          FromNat(F64, NatSub(InRec.undealt_amount, OutRec.undealt_amount)))

\* the verdict of the other checks: the one validate gives when the dealt
\* amounts of the pair are replaced by 0 and the undealt difference, which
\* are in lock-step and are read by no other check
OtherChecks ==
  CheckOrder(InCap, OutCap,
             [InRec EXCEPT !.dealt_amount = U128(<< >>)],
             [OutRec EXCEPT !.dealt_amount =
                U128(NatSub(InRec.undealt_amount, OutRec.undealt_amount))])

\* the verdict of a run in which the lock-step check is applied when
\* `applies` holds, and skipped otherwise
VerdictWith(applies) ==
  IF applies /\ ~LockStepHolds THEN "WrongSUDTDiffAmount" ELSE OtherChecks

\* C12: for Buy and for Sell alike, the lock-step check (output.dealt >=
\* input.dealt and the dealt increase equal to the undealt decrease, else
\* WrongSUDTDiffAmount) is applied exactly when the output has dealt # 0 and
\* undealt # 0, so that both branches skip it for an output with exactly one
\* of the two equal to 0
C12_LockStepWhenOpen ==
  LockStepReached => result.verdict = VerdictWith(OutputOpen)

\* what validate does: the Buy branch applies the check when both amounts of
\* the output are non-zero, the Sell branch when either is
C12_LockStepPerBranch ==
  LockStepReached =>
    result.verdict = VerdictWith(IF InRec.order_type = 0 THEN OutputOpen
                                 ELSE OutputOpen \/ OutputHalfOpen)

\* a Sell run that passes every other check and is rejected for the
\* lock-step of an output with exactly one of dealt and undealt equal to 0
C12_SellHalfOpenChecked ==
  /\ LockStepReached /\ InRec.order_type = 1
  /\ OutputHalfOpen /\ ~LockStepHolds
  /\ OtherChecks = "Ok"
  /\ result.verdict = "WrongSUDTDiffAmount"

(***************************************************************************)
(* The index a run is decided on, and transactions that differ elsewhere.  *)
(***************************************************************************)

\* output i is under lock arguments that begin with the script's 20 bytes
Matches(i) ==
  /\ Len(tx.outputs[i].lock_args) >= 20 /\ Len(args) >= 20
  /\ SubSeq(tx.outputs[i].lock_args, 1, 20) = SubSeq(args, 1, 20)

\* the least index of a matching output, 0 when there is none
FirstMatch ==
  IF \E i \in 1..Len(tx.outputs) : Matches(i)
  THEN CHOOSE i \in 1..Len(tx.outputs) : Matches(i) /\ \A j \in 1..(i - 1) : ~Matches(j)
  ELSE 0

Scrambles == {"blank", "swap", "clone"}

\* the capacity and data a cell away from the kept index is given: none,
\* those of the cell across (the output for an input and the reverse), or
\* those of the kept output
Scrambled(kind, own, across, kept) ==
  CASE kind = "blank" -> [own EXCEPT !.capacity = U64(<< >>), !.data = << >>]
    [] kind = "swap"  -> [own EXCEPT !.capacity = across.capacity, !.data = across.data]
    [] kind = "clone" -> [own EXCEPT !.capacity = kept.capacity, !.data = kept.data]

\* the transaction with the same numbers of inputs and outputs and the same
\* lock arguments, that agrees with tx on the cells at index keep and differs
\* from it in the capacity and data at the other indices
Scramble(kind, keep) ==
  LET kept == IF keep > 0 THEN tx.outputs[keep] ELSE Cell(<<1>>, <<1>>, << >>)
      across(cells, i) == IF i <= Len(cells) THEN cells[i] ELSE kept
  IN  [tx EXCEPT
         !.inputs  = [i \in 1..Len(tx.inputs) |->
                        IF i = keep THEN tx.inputs[i]
                        ELSE Scrambled(kind, tx.inputs[i], across(tx.outputs, i), kept)],
         !.outputs = [i \in 1..Len(tx.outputs) |->
                        IF i = keep THEN tx.outputs[i]
                        ELSE Scrambled(kind, tx.outputs[i], across(tx.inputs, i), kept)]]

\* C13: the run is decided on the first index whose output lock arguments
\* begin with the script's, and only on the capacities and records at that
\* index: a transaction with the same numbers of inputs and outputs and the
\* same output lock arguments that agrees on the cells at that index gets
\* the same verdict from validate, whatever the data and capacities at the
\* other indices are, later matching indices included
C13_FirstMatchWins ==
  (build = "order" /\ Ran /\ Len(tx.inputs) = Len(tx.outputs)) =>
    /\ result.verdict # "Panic" => result.index = FirstMatch
    /\ \A kind \in Scrambles :
         validate(args, Scramble(kind, FirstMatch)).verdict = result.verdict

\* an accepted run on a transaction with a second output under the owner's
\* lock arguments, whose cells at the second index decide nothing: blanked,
\* they are a different transaction with the same verdict
C13_LaterMatchIgnored ==
  /\ build = "order" /\ pc = "Accepted"
  /\ Len(tx.inputs) = 2 /\ Len(tx.outputs) = 2
  /\ Matches(1) /\ Matches(2)
  /\ result.index = 1
  /\ Scramble("blank", 1) # tx
  /\ validate(args, Scramble("blank", 1)).verdict = "Ok"

====
